---- MODULE Spec2Model ----
(***************************************************************************)
(* Frame-pair sampling of consistent_depth (utils/frame_sampling.py) and   *)
(* its caller video.sample_pairs.  The generators are pure functions; each *)
(* action of the model is one call of one of them with inputs drawn from   *)
(* bounded sets, and records the call and what it returned or raised.      *)
(***************************************************************************)
EXTENDS Integers, Sequences, FiniteSets, TLC

\* ------------------------------------------------------------------ bounds
MaxFrames == 8      \* largest num_frames passed to a generator
MaxNeg == 1         \* num_frames, min_dist and max_dist go down to -MaxNeg
MaxDist == 5        \* largest min_dist / max_dist
MaxIdx == 2         \* to_one_way is applied to sets of pairs over 0..MaxIdx
MaxFrameId == 3     \* frame identifiers of a FrameRange are in 0..MaxFrameId
MaxOpts == 2        \* longest list of requests handed to sample
MaxPairs == 3       \* largest set of pairs handed to to_one_way

VARIABLES
    nan_cast,       \* what float64(nan).astype(int) yields on this build
    neginf_cast,    \* what float64(-inf).astype(int) yields on this build
    pc,             \* "idle" or "done"
    call,           \* the call being made: its name and its arguments
    result          \* what the call returned or raised

vars == <<nan_cast, neginf_cast, pc, call, result>>

\* ------------------------------------------------------- python / numpy values
\* Optional keyword argument: None (or an absent key) is <<>>, a value v is <<v>>.
None == <<>>
Some(v) == <<v>>

\* A call either returns a pair set or raises.
Return(pairs) == [err |-> "none", pairs |-> pairs]
Raise(e) == [err |-> e, pairs |-> {}]

\* Pair = namedtuple("Pair", ["first", "second"])
Pair(first, second) == <<first, second>>

\* np.int64 values.  TLC integers are 32 bits wide, so the three int64 values
\* the code can hold outside that width are tagged: INT64_MIN, INT64_MIN + 1
\* and INT64_MAX.  Every other value v is Fin(v).
Fin(v) == [tag |-> "fin", v |-> v]
INT64_MIN == [tag |-> "min", v |-> 0]
INT64_MIN1 == [tag |-> "min1", v |-> 0]
INT64_MAX == [tag |-> "max", v |-> 0]

\* A float -> int64 cast of nan or of -inf has no defined result in C; builds
\* differ (x86-64: INT64_MIN; AArch64: 0 for nan; RISC-V: INT64_MAX for nan).
CastOutcomes == {INT64_MIN, Fin(0), INT64_MAX}

\* np.int64 + 1, wrapping at 64 bits
np_add1(x) ==
    CASE x.tag = "fin" -> Fin(x.v + 1)
      [] x.tag = "min" -> INT64_MIN1
      [] x.tag = "min1" -> INT64_MIN1
      [] x.tag = "max" -> INT64_MIN

np_rank(x) ==
    CASE x.tag = "min" -> 0
      [] x.tag = "min1" -> 1
      [] x.tag = "fin" -> 2
      [] x.tag = "max" -> 3

\* x < y on int64 values
np_lt(x, y) ==
    \/ np_rank(x) < np_rank(y)
    \/ x.tag = "fin" /\ y.tag = "fin" /\ x.v < y.v

\* np.floor(np.log2(x)) for an integer x >= 1
RECURSIVE floor_log2(_)
floor_log2(x) == IF x <= 1 THEN 0 ELSE 1 + floor_log2(x \div 2)

\* np.ceil(np.log2(x)) for an integer x >= 1
ceil_log2(x) == IF x <= 1 THEN 0 ELSE 1 + floor_log2(x - 1)

\* ------------------------------------------------------ sample_hierarchical
\* assert min_dist >= 1
assert_min_dist_loose(min_dist) == min_dist >= 0
assert_min_dist(min_dist) == min_dist >= 1

\* min_level = np.ceil(np.log2(min_dist)).astype(int)
\* log2(0) is -inf and log2 of a negative number is nan
min_level_floor(min_dist) ==
    IF min_dist >= 1 THEN Fin(floor_log2(min_dist))
    ELSE IF min_dist = 0 THEN neginf_cast ELSE nan_cast
min_level(min_dist) ==
    IF min_dist >= 1 THEN Fin(ceil_log2(min_dist))
    ELSE IF min_dist = 0 THEN neginf_cast ELSE nan_cast

\* max_level = np.floor(np.log2(max_dist)).astype(int)
max_level(max_dist) ==
    IF max_dist >= 1 THEN Fin(floor_log2(max_dist))
    ELSE IF max_dist = 0 THEN neginf_cast ELSE nan_cast

\* step_level = (lambda l: max(0, l - 1)) if include_mid_point else (lambda l: l)
step_level_coarse(include_mid_point, l) ==
    IF include_mid_point THEN l + 1 ELSE l
step_level(include_mid_point, l) ==
    IF include_mid_point THEN (IF l - 1 > 0 THEN l - 1 ELSE 0) ELSE l

\* signs = (-1, 1) if two_way else (1, )
signs_backward(two_way) == IF two_way THEN {-1} ELSE {1}
signs(two_way) == IF two_way THEN {-1, 1} ELSE {1}

\* if end < 0 or end >= num_frames: continue
out_of_range_off_by_one(end, num_frames) == end < 0 \/ end > num_frames
out_of_range(end, num_frames) == end < 0 \/ end >= num_frames

\* for sign in signs: end = start + sign * dist; ...; pairs.add(Pair(start, end))
sign_loop(num_frames, two_way, start, dist) ==
    { Pair(start, start + sign * dist) : sign \in
        { s \in signs(two_way) : ~out_of_range(start + s * dist, num_frames) } }

\* for start in range(0, num_frames, step)
RECURSIVE start_loop(_, _, _, _, _)
start_loop(num_frames, two_way, start, step, dist) ==
    IF start >= num_frames THEN {}
    ELSE sign_loop(num_frames, two_way, start, dist)
         \cup start_loop(num_frames, two_way, start + step, step, dist)

\* for level in range(min_level, stop): dist = 1 << level; step = 1 << step_level(level)
RECURSIVE level_loop(_, _, _, _, _)
level_loop(num_frames, two_way, include_mid_point, level, stop) ==
    IF level >= stop THEN {}
    ELSE start_loop(num_frames, two_way, 0,
                    2 ^ step_level(include_mid_point, level), 2 ^ level)
         \cup level_loop(num_frames, two_way, include_mid_point, level + 1, stop)

sample_hierarchical(num_frames, two_way, min_dist, max_dist, include_mid_point) ==
    IF ~assert_min_dist(min_dist) THEN Raise("AssertionError")
    ELSE LET md == IF max_dist = None THEN num_frames - 1 ELSE max_dist[1]
             lo == min_level(min_dist)
             stop == np_add1(max_level(md))
         IN  IF ~np_lt(lo, stop) THEN Return({})
             \* 1 << level with a negative level
             ELSE IF lo.tag # "fin" \/ lo.v < 0 THEN Raise("ValueError")
             ELSE Return(level_loop(num_frames, two_way, include_mid_point,
                                    lo.v, stop.v))

sample_hierarchical2(num_frames, two_way, min_dist, max_dist) ==
    sample_hierarchical(num_frames, two_way, min_dist, max_dist, TRUE)

sample_consecutive_wide(num_frames, two_way) ==
    sample_hierarchical(num_frames, two_way, 1, Some(2), FALSE)
sample_consecutive(num_frames, two_way) ==
    sample_hierarchical(num_frames, two_way, 1, Some(1), FALSE)

\* --------------------------------------------------------- sample_exhausted
\* second_frame_range = (lambda i, N: range(N)) if two_way else
\*                      (lambda i, N: range(i + 1, N))
second_frame_range(two_way, i, N) == IF two_way THEN 0..(N - 1) ELSE (i + 1)..(N - 1)

\* declared @staticmethod with three parameters (cls, num_frames, two_way)
sample_exhausted(cls, num_frames, two_way) ==
    Return(UNION { { Pair(i, j) : j \in { k \in second_frame_range(two_way, i, num_frames) : i # k } }
                   : i \in 0..(num_frames - 1) })

\* --------------------------------------------------------------- to_one_way
ordered_always_reversed(pair) == Pair(pair[2], pair[1])
ordered(pair) == IF pair[1] > pair[2] THEN Pair(pair[2], pair[1]) ELSE Pair(pair[1], pair[2])

to_one_way(pairs) == { ordered(p) : p \in pairs }

\* ------------------------------------------------------------------ factory
\* SamplePairsMode
Modes == {"EXHAUSTED", "CONSECUTIVE", "HIERARCHICAL", "HIERARCHICAL2"}

\* SamplePairsOptions(mode, params = {}); an absent key of params is None
NoParams == [min_dist |-> None, max_dist |-> None, include_mid_point |-> None,
             two_way |-> None]
SamplePairsOptions(mode, params) == [mode |-> mode, params |-> params]

BoolInt(b) == IF b THEN 1 ELSE 0

\* funcs[opt.mode](num_frames, two_way, **opt.params): the two positional
\* arguments bind to the first two parameters of the function looked up, the
\* keys of params to parameters by name.  A key naming no parameter, a key
\* naming a parameter already bound, and a parameter left unbound each raise
\* TypeError.
factory(num_frames, opt, two_way) ==
    LET p == opt.params IN
    CASE opt.mode = "EXHAUSTED" ->
            \* sample_exhausted(cls, num_frames, two_way): cls = num_frames,
            \* num_frames = two_way
            IF p.min_dist # None \/ p.max_dist # None \/ p.include_mid_point # None
                \/ p.two_way = None
            THEN Raise("TypeError")
            ELSE sample_exhausted(num_frames, BoolInt(two_way), p.two_way[1])
      [] opt.mode = "CONSECUTIVE" ->
            IF p # NoParams THEN Raise("TypeError")
            ELSE sample_consecutive(num_frames, two_way)
      [] opt.mode = "HIERARCHICAL" ->
            IF p.two_way # None THEN Raise("TypeError")
            ELSE sample_hierarchical(num_frames, two_way,
                    IF p.min_dist = None THEN 1 ELSE p.min_dist[1],
                    p.max_dist,
                    IF p.include_mid_point = None THEN FALSE ELSE p.include_mid_point[1])
      [] opt.mode = "HIERARCHICAL2" ->
            IF p.two_way # None \/ p.include_mid_point # None THEN Raise("TypeError")
            ELSE sample_hierarchical2(num_frames, two_way,
                    IF p.min_dist = None THEN 1 ELSE p.min_dist[1],
                    p.max_dist)

\* --------------------------------------------------------------- FrameRange
\* utils/frame_range.py: a mapping from index to frame identifier and the
\* set of active frames.
FrameRange(index_to_frame, frames) == [index_to_frame |-> index_to_frame, frames |-> frames]
FrameRange_len(frame_range) == Len(frame_range.index_to_frame)
FrameRange_frames(frame_range) == frame_range.frames
\* frame_range.index_to_frame[i], i counted from 0
index_to_frame(frame_range, i) == frame_range.index_to_frame[i + 1]

\* ------------------------------------------------------------------- sample
\* for opt in opts: rel_pairs = rel_pairs.union(cls.factory(num_frames, opt, two_way))
\* an exception raised by factory leaves sample
RECURSIVE rel_pairs_loop(_, _, _, _, _)
rel_pairs_loop(opts, k, num_frames, two_way, rel_pairs) ==
    IF k > Len(opts) THEN Return(rel_pairs)
    ELSE LET r == factory(num_frames, opts[k], two_way)
         IN  IF r.err # "none" THEN r
             ELSE rel_pairs_loop(opts, k + 1, num_frames, two_way, rel_pairs \cup r.pairs)

\* if (pair[0] in frame_range.frames() or pair[1] in frame_range.frames())
in_frames_by_index(pair, rel_pair, frames) == rel_pair[1] \in frames \/ rel_pair[2] \in frames
in_frames(pair, rel_pair, frames) == pair[1] \in frames \/ pair[2] \in frames

sample(opts, frame_range, two_way) ==
    LET num_frames == FrameRange_len(frame_range)
        rel == rel_pairs_loop(opts, 1, num_frames, two_way, {})
    IN  IF rel.err # "none" THEN rel
        ELSE Return({ Pair(index_to_frame(frame_range, rel_pair[1]),
                           index_to_frame(frame_range, rel_pair[2])) : rel_pair \in
                { r \in rel.pairs :
                    in_frames(Pair(index_to_frame(frame_range, r[1]),
                                   index_to_frame(frame_range, r[2])),
                              r, FrameRange_frames(frame_range)) } })

\* ------------------------------------------------------- video.sample_pairs
\* SamplePairsMode.name_mode_map(): {v.name.lower(): v for v in cls}
name_mode_map ==
    [name \in {"exhausted", "consecutive", "hierarchical", "hierarchical2"} |->
        CASE name = "exhausted" -> "EXHAUSTED"
          [] name = "consecutive" -> "CONSECUTIVE"
          [] name = "hierarchical" -> "HIERARCHICAL"
          [] name = "hierarchical2" -> "HIERARCHICAL2"]

\* opts = [SamplePairsOptions(mode=name_mode_map[op]) for op in flow_ops]
\* pairs = SamplePairs.sample(opts, frame_range=frame_range, two_way=True)
sample_pairs(frame_range, flow_ops) ==
    IF \E k \in 1..Len(flow_ops) : flow_ops[k] \notin DOMAIN name_mode_map
    THEN Raise("KeyError")
    ELSE sample([k \in 1..Len(flow_ops) |->
                    SamplePairsOptions(name_mode_map[flow_ops[k]], NoParams)],
                frame_range, TRUE)

\* ---------------------------------------------------------- input domains
NumFramesValues == (-MaxNeg)..MaxFrames
DistValues == (-MaxNeg)..MaxDist
OptDistValues == {None} \cup { Some(d) : d \in DistValues }

\* parameter dictionaries of a request
ParamsValues ==
    { NoParams,
      [NoParams EXCEPT !.min_dist = Some(2)],
      [NoParams EXCEPT !.min_dist = Some(0)],
      [NoParams EXCEPT !.max_dist = Some(2)],
      [NoParams EXCEPT !.include_mid_point = Some(TRUE)],
      [NoParams EXCEPT !.two_way = Some(TRUE)] }
Requests == { SamplePairsOptions(m, p) : m \in Modes, p \in ParamsValues }

\* requests handed to sample
SampleRequests ==
    { SamplePairsOptions(m, NoParams) : m \in Modes }
    \cup { SamplePairsOptions("HIERARCHICAL", [NoParams EXCEPT !.min_dist = Some(2)]),
           SamplePairsOptions("HIERARCHICAL", [NoParams EXCEPT !.min_dist = Some(0)]),
           SamplePairsOptions("EXHAUSTED", [NoParams EXCEPT !.two_way = Some(TRUE)]) }

SeqsUpTo(S, n) == UNION { [1..k -> S] : k \in 0..n }

\* the increasing sequence of the elements of a set of integers
RECURSIVE sorted(_)
sorted(S) ==
    IF S = {} THEN <<>>
    ELSE LET m == CHOOSE x \in S : \A y \in S : x <= y
         IN  <<m>> \o sorted(S \ {m})

FrameIds == 0..MaxFrameId
FrameRanges == { FrameRange(sorted(S), A) : S \in SUBSET FrameIds, A \in SUBSET FrameIds }

FlowOps == DOMAIN name_mode_map \cup {"unknown"}

PairSets == { S \in SUBSET ((0..MaxIdx) \X (0..MaxIdx)) : Cardinality(S) <= MaxPairs }

\* ------------------------------------------------------------ state machine
NoCall == [op |-> "none", num_frames |-> 0, two_way |-> FALSE, min_dist |-> 0,
           max_dist |-> None, include_mid_point |-> FALSE, opts |-> <<>>,
           frame_range |-> FrameRange(<<>>, {}), flow_ops |-> <<>>, pairs |-> {}]

Init ==
    /\ nan_cast \in CastOutcomes
    /\ neginf_cast \in CastOutcomes
    /\ pc = "idle"
    /\ call = NoCall
    /\ result = Return({})

Do(c, r) ==
    /\ pc' = "done"
    /\ call' = c
    /\ result' = r
    /\ UNCHANGED <<nan_cast, neginf_cast>>

CallSampleHierarchical ==
    /\ pc = "idle"
    /\ \E n \in NumFramesValues, tw \in BOOLEAN, mind \in DistValues,
       maxd \in OptDistValues, mid \in BOOLEAN :
        Do([NoCall EXCEPT !.op = "sample_hierarchical", !.num_frames = n,
                          !.two_way = tw, !.min_dist = mind, !.max_dist = maxd,
                          !.include_mid_point = mid],
           sample_hierarchical(n, tw, mind, maxd, mid))

CallSampleHierarchical2 ==
    /\ pc = "idle"
    /\ \E n \in NumFramesValues, tw \in BOOLEAN, mind \in DistValues,
       maxd \in OptDistValues :
        Do([NoCall EXCEPT !.op = "sample_hierarchical2", !.num_frames = n,
                          !.two_way = tw, !.min_dist = mind, !.max_dist = maxd,
                          !.include_mid_point = TRUE],
           sample_hierarchical2(n, tw, mind, maxd))

CallSampleConsecutive ==
    /\ pc = "idle"
    /\ \E n \in NumFramesValues, tw \in BOOLEAN :
        Do([NoCall EXCEPT !.op = "sample_consecutive", !.num_frames = n,
                          !.two_way = tw, !.min_dist = 1, !.max_dist = Some(1)],
           sample_consecutive(n, tw))

\* SamplePairs.sample_exhausted called with its three arguments
CallSampleExhausted ==
    /\ pc = "idle"
    /\ \E n \in NumFramesValues, tw \in BOOLEAN :
        Do([NoCall EXCEPT !.op = "sample_exhausted", !.num_frames = n, !.two_way = tw],
           sample_exhausted("SamplePairs", n, tw))

CallFactory ==
    /\ pc = "idle"
    /\ \E n \in NumFramesValues, opt \in Requests, tw \in BOOLEAN :
        Do([NoCall EXCEPT !.op = "factory", !.num_frames = n, !.two_way = tw,
                          !.opts = <<opt>>],
           factory(n, opt, tw))

CallSample ==
    /\ pc = "idle"
    /\ \E opts \in SeqsUpTo(SampleRequests, MaxOpts), fr \in FrameRanges, tw \in BOOLEAN :
        Do([NoCall EXCEPT !.op = "sample", !.num_frames = FrameRange_len(fr),
                          !.two_way = tw, !.opts = opts, !.frame_range = fr],
           sample(opts, fr, tw))

CallSamplePairs ==
    /\ pc = "idle"
    /\ \E fr \in FrameRanges, ops \in SeqsUpTo(FlowOps, MaxOpts) :
        Do([NoCall EXCEPT !.op = "sample_pairs", !.num_frames = FrameRange_len(fr),
                          !.two_way = TRUE, !.flow_ops = ops, !.frame_range = fr],
           sample_pairs(fr, ops))

CallToOneWay ==
    /\ pc = "idle"
    /\ \E S \in PairSets :
        Do([NoCall EXCEPT !.op = "to_one_way", !.pairs = S], Return(to_one_way(S)))

\* the call is over; nothing is kept between calls
Finish ==
    /\ pc = "done"
    /\ pc' = "idle"
    /\ call' = NoCall
    /\ result' = Return({})
    /\ UNCHANGED <<nan_cast, neginf_cast>>

Next ==
    \/ CallSampleHierarchical
    \/ CallSampleHierarchical2
    \/ CallSampleConsecutive
    \/ CallSampleExhausted
    \/ CallFactory
    \/ CallSample
    \/ CallSamplePairs
    \/ CallToOneWay
    \/ Finish

Spec == Init /\ [][Next]_vars

TypeOK ==
    /\ pc \in {"idle", "done"}
    /\ result.err \in {"none", "AssertionError", "TypeError", "ValueError", "KeyError"}

\* ------------------------------------------------------------------ claims
Done(op) == pc = "done" /\ call.op = op
Reverse(p) == <<p[2], p[1]>>
Abs(x) == IF x < 0 THEN -x ELSE x

\* C1: for num_frames >= 2, the EXHAUSTED mode dispatched by factory with
\* two_way = false returns exactly num_frames*(num_frames-1)/2 pairs, each
\* with first < second.
C1_ExhaustedOneWay ==
    (/\ Done("factory")
     /\ call.opts[1] = SamplePairsOptions("EXHAUSTED", NoParams)
     /\ call.num_frames >= 2
     /\ ~call.two_way)
    => /\ result.err = "none"
       /\ 2 * Cardinality(result.pairs) = call.num_frames * (call.num_frames - 1)
       /\ \A p \in result.pairs : p[1] < p[2]

\* C2: for N >= 1, sample_consecutive(N, two_way = true) returns exactly the
\* 2*(N-1) pairs (i, i+1) and (i+1, i), 0 <= i < N-1, and to_one_way of that
\* result is exactly the N-1 pairs (i, i+1).
C2_Consecutive ==
    (Done("sample_consecutive") /\ call.two_way /\ call.num_frames >= 1)
    => LET N == call.num_frames
           up == { <<i, i + 1>> : i \in 0..(N - 2) }
           down == { <<i + 1, i>> : i \in 0..(N - 2) }
       IN  /\ result.err = "none"
           /\ result.pairs = up \cup down
           /\ Cardinality(result.pairs) = 2 * (N - 1)
           /\ to_one_way(result.pairs) = up
           /\ Cardinality(to_one_way(result.pairs)) = N - 1

C2_Witness ==
    /\ Done("sample_consecutive") /\ call.two_way /\ call.num_frames = 4
    /\ Cardinality(result.pairs) = 6
    /\ <<3, 2>> \in result.pairs

\* C3: every pair returned by sample has at least one of its frame
\* identifiers in frame_range.frames(), and is the image under index_to_frame
\* of a relative pair produced by one of the requests' generators with
\* num_frames = len(frame_range).
C3_SampleFiltered ==
    Done("sample")
    => \A p \in result.pairs :
         /\ (p[1] \in FrameRange_frames(call.frame_range)
             \/ p[2] \in FrameRange_frames(call.frame_range))
         /\ \E k \in 1..Len(call.opts) :
              \E r \in factory(FrameRange_len(call.frame_range), call.opts[k],
                               call.two_way).pairs :
                 p = <<call.frame_range.index_to_frame[r[1] + 1],
                       call.frame_range.index_to_frame[r[2] + 1]>>

\* a pair was kept, and another one was dropped because neither of its
\* frames is active
C3_Witness ==
    /\ Done("sample") /\ call.two_way
    /\ call.frame_range = FrameRange(<<0, 2, 3>>, {3})
    /\ call.opts = <<SamplePairsOptions("CONSECUTIVE", NoParams)>>
    /\ result.pairs = {<<2, 3>>, <<3, 2>>}

\* C4 (as stated): a generator call with min_dist < 1 or with a negative
\* num_frames ends in an error and returns no pair set.
C4_PreconditionRaises ==
    (/\ pc = "done"
     /\ call.op \in {"sample_hierarchical", "sample_hierarchical2", "sample_consecutive"}
     /\ (call.min_dist < 1 \/ call.num_frames < 0))
    => result.err # "none"

\* C4 (amended): a call of sample_hierarchical, sample_hierarchical2 or
\* sample_consecutive with min_dist < 1 raises AssertionError and returns no
\* pairs; with min_dist >= 1 and a negative num_frames it raises nothing and
\* returns the empty pair set.
C4_Amended ==
    (/\ pc = "done"
     /\ call.op \in {"sample_hierarchical", "sample_hierarchical2", "sample_consecutive"})
    => /\ call.min_dist < 1 => result = Raise("AssertionError")
       /\ (call.min_dist >= 1 /\ call.num_frames < 0) => result = Return({})

C4_Witness ==
    /\ Done("sample_hierarchical")
    /\ call.min_dist = 0 /\ call.num_frames = 4
    /\ result.err = "AssertionError"

\* C5: for num_frames = 0 and 1, each of the four modes invoked through
\* factory with default parameters returns the empty pair set and raises no
\* error.
C5_EmptyForSmall ==
    (/\ Done("factory")
     /\ call.opts[1].params = NoParams
     /\ call.num_frames \in {0, 1})
    => result = Return({})

\* C6: sample_hierarchical2(num_frames, two_way, d, d) is a superset of
\* sample_hierarchical(num_frames, two_way, d, d, include_mid_point = false)
\* for every d >= 1.
C6_MidPointSuperset ==
    (/\ Done("sample_hierarchical2")
     /\ call.min_dist >= 1
     /\ call.max_dist = Some(call.min_dist))
    => LET h == sample_hierarchical(call.num_frames, call.two_way, call.min_dist,
                                    call.max_dist, FALSE)
       IN  /\ result.err = "none"
           /\ h.err = "none"
           /\ h.pairs \subseteq result.pairs

\* the mid-point scan added a pair
C6_Witness ==
    /\ Done("sample_hierarchical2")
    /\ call.min_dist = 2 /\ call.max_dist = Some(2) /\ call.num_frames = 5
    /\ <<2, 4>> \in result.pairs
    /\ <<1, 3>> \in result.pairs

\* C7: to_one_way(to_one_way(S)) = to_one_way(S), and a pair and its reverse
\* in S map to one single element of the result.
C7_Idempotent ==
    Done("to_one_way")
    => /\ to_one_way(result.pairs) = result.pairs
       /\ \A p \in call.pairs :
            Reverse(p) \in call.pairs
            => Cardinality({ q \in result.pairs : q = p \/ q = Reverse(p) }) = 1

C7_Witness ==
    /\ Done("to_one_way")
    /\ {<<2, 0>>, <<0, 2>>, <<1, 0>>} \subseteq call.pairs
    /\ result.pairs = {<<0, 2>>, <<0, 1>>}

\* C8: every pair (i, j) returned by a generator has i and j in
\* [0, num_frames) and i # j.
C8_InRangeNoSelfPair ==
    (/\ pc = "done"
     /\ call.op \in {"sample_hierarchical", "sample_hierarchical2",
                     "sample_consecutive", "sample_exhausted", "factory"})
    => \A p \in result.pairs :
         /\ 0 <= p[1] /\ p[1] < call.num_frames
         /\ 0 <= p[2] /\ p[2] < call.num_frames
         /\ p[1] # p[2]

\* the scan reached the last frame and dropped the candidate beyond it
C8_Witness ==
    /\ Done("sample_hierarchical")
    /\ call.num_frames = 5 /\ call.two_way /\ call.max_dist = Some(5)
    /\ <<4, 2>> \in result.pairs
    /\ <<4, 0>> \in result.pairs

\* C9: for min_dist >= 1 and max_dist >= 1, sample_hierarchical returns
\* exactly the pairs (start, start + sign * 2^level), level from
\* ceil(log2(min_dist)) to floor(log2(max_dist)), start a multiple of
\* 2^max(0, level-1) (include_mid_point) or 2^level in [0, num_frames), sign
\* +1 or (two_way) -1, end in [0, num_frames); every distance is a power of
\* two between min_dist and max_dist; and for num_frames = 8, two_way,
\* min_dist = 1, max_dist = 4 the result has (0,1), (1,0), (0,2), (2,0) and
\* (0,4) and not (0,8).
C9_Hierarchical ==
    LET n == call.num_frames
        md == IF call.max_dist = None THEN n - 1 ELSE call.max_dist[1]
        levels == { l \in 0..md : 2 ^ l >= call.min_dist /\ 2 ^ l <= md }
        sgn == IF call.two_way THEN {-1, 1} ELSE {1}
        step(l) == IF call.include_mid_point /\ l >= 1 THEN 2 ^ (l - 1)
                   ELSE IF call.include_mid_point THEN 1 ELSE 2 ^ l
        expected == { c \in { <<t[2], t[2] + t[3] * 2 ^ t[1]>> :
                                t \in levels \X (0..(n - 1)) \X sgn } :
                        /\ c[2] >= 0 /\ c[2] < n
                        /\ \E l \in levels :
                             /\ c[1] % step(l) = 0
                             /\ Abs(c[2] - c[1]) = 2 ^ l }
    IN  (Done("sample_hierarchical") /\ call.min_dist >= 1 /\ md >= 1)
        => /\ result.err = "none"
           /\ result.pairs = expected
           /\ \A p \in result.pairs :
                \E l \in 0..md : /\ Abs(p[2] - p[1]) = 2 ^ l
                                 /\ call.min_dist <= 2 ^ l /\ 2 ^ l <= md
           /\ (n = 8 /\ call.two_way /\ call.min_dist = 1 /\ call.max_dist = Some(4))
              => /\ {<<0, 1>>, <<1, 0>>, <<0, 2>>, <<2, 0>>, <<0, 4>>} \subseteq result.pairs
                 /\ <<0, 8>> \notin result.pairs

C9_Witness ==
    /\ Done("sample_hierarchical")
    /\ call.num_frames = 8 /\ call.two_way /\ ~call.include_mid_point
    /\ call.min_dist = 1 /\ call.max_dist = Some(4)
    /\ <<0, 4>> \in result.pairs /\ <<4, 0>> \in result.pairs
    /\ <<2, 0>> \in result.pairs

\* C10: the two_way = true result of sample_hierarchical is closed under
\* reversal, and to_one_way of it is the two_way = false result for the same
\* arguments.
C10_TwoWaySymmetric ==
    (Done("sample_hierarchical") /\ call.two_way /\ call.min_dist >= 1)
    => /\ result.err = "none"
       /\ \A p \in result.pairs : Reverse(p) \in result.pairs
       /\ Return(to_one_way(result.pairs)) =
            sample_hierarchical(call.num_frames, FALSE, call.min_dist,
                                call.max_dist, call.include_mid_point)

C10_Witness ==
    /\ Done("sample_hierarchical") /\ call.two_way /\ call.include_mid_point
    /\ call.num_frames = 6 /\ call.min_dist = 2 /\ call.max_dist = None
    /\ <<4, 0>> \in result.pairs /\ <<0, 4>> \in result.pairs
    /\ <<3, 1>> \in result.pairs

====
